---- MODULE Spec2Model ----
(***************************************************************************)
(* State-machine model of the FordPass platform plugin (src/src/index.ts): *)
(* the accessory registry (configureAccessory, addVehicles), the bootstrap *)
(* sequence (didFinishLaunching), the status-update pass (updateVehicles)  *)
(* and the characteristic handlers bound in configureAccessory.            *)
(*                                                                         *)
(* JavaScript objects are modelled by identity: accObj and vehObj are the  *)
(* heaps of PlatformAccessory and Vehicle objects (index = identity), and  *)
(* the arrays this.accessories / this.vehicles hold identities.  Every     *)
(* configureAccessory call creates exactly one Vehicle for one accessory,  *)
(* so the handlers of accessory i close over vehicle i.                    *)
(***************************************************************************)
EXTENDS Integers, Sequences, FiniteSets, TLC

\* ------------------------------------------------------------------ bounds
MaxDesired == 2      \* longest config.vehicles list drawn by Init
MaxCached == 2       \* most cached accessories the host hands back at startup
MaxPasses == 2       \* addVehicles passes run by the reconciliation spec
MaxUpdates == 2      \* updateVehicles passes (the bootstrap one and poll ticks)
MaxReauth == 1       \* session-refresh ticks
MaxReqs == 1         \* characteristic requests the host delivers
MaxHandles == 2      \* most Vehicle handles a run of the platform creates

\* ------------------------------------------------------------- value sets
\* VINs as they are stored by the plugin (upper case) and as a user may type
\* them in config.json ("a" is "A" typed in lower case).
UpperVins == {"A", "B", "C"}
Vins == UpperVins \cup {"a"}
\* The VINs the configurations of a whole-platform run are drawn from.
RunVins == {"a", "B"}

\* Case-insensitive equality of VINs, stated independently of toUpperCase.
FoldClasses == {{"a", "A"}, {"B"}, {"C"}}
SameIgnoringCase(x, y) == \E c \in FoldClasses : x \in c /\ y \in c

\* A variant that leaves the VIN as typed (the normalisation forgotten).
toUpperCase_identity(v) == v

\* String.prototype.toUpperCase on the VIN (index.ts:157).
toUpperCase(v) == IF v = "a" THEN "A" ELSE v

\* hap.uuid.generate: a deterministic, case-sensitive, injective digest.
generate(v) == "uuid:" \o v

\* The elements of an array.
Range(s) == {s[k] : k \in 1..Len(s)}

\* All sequences over S of length at most n.
SeqsUpTo(S, n) == UNION {[1..k -> S] : k \in 0..n}

\* Array.prototype.splice(index, 1): in-place removal of one element.
splice(s, index) == SubSeq(s, 1, index - 1) \o SubSeq(s, index + 1, Len(s))

\* Array.prototype.slice(index, 1) as a statement: it builds a copy and leaves
\* the array it is called on as it was (index.ts:185).
slice(s, index) == s

\* Array.prototype.indexOf by object identity; 0 stands for JavaScript's -1.
indexOf(s, id) ==
    IF \E k \in 1..Len(s) : s[k] = id
    THEN CHOOSE k \in 1..Len(s) : s[k] = id /\ \A j \in 1..(k - 1) : s[j] # id
    ELSE 0

\* ------------------------------------------------------------------ state
VARIABLES
    config,           \* PlatformConfig: username, password, vehicles
    subscribed,       \* the constructor subscribed didFinishLaunching
    accObj,           \* heap of PlatformAccessory objects
    vehObj,           \* heap of Vehicle objects (vin, info)
    accessories,      \* this.accessories: identities into accObj
    vehicles,         \* this.vehicles: identities into vehObj
    registerCalls,    \* api.registerPlatformAccessories calls, in order
    unregisterCalls,  \* api.unregisterPlatformAccessories calls, in order
    passes,           \* addVehicles passes completed
    configJson,       \* config.vehicles as typed in config.json (never written)
    pc,               \* where didFinishLaunching stands
    timers,           \* which setInterval timers are scheduled
    nUpdates,         \* updateVehicles passes started
    nReauth,          \* session-refresh ticks fired
    tasks,            \* per-vehicle callbacks of updateVehicles awaiting status()
    reqs              \* characteristic requests delivered to the handlers

regVars == <<config, subscribed, accObj, vehObj, accessories, vehicles,
             registerCalls, unregisterCalls, passes, configJson>>
runVars == <<pc, timers, nUpdates, nReauth, tasks, reqs>>
vars == <<regVars, runVars>>

\* JavaScript undefined where a status snapshot is expected: vehicle.info
\* before any fetch, and what status() resolves to when the fetch fails.
undefined == [ok |-> FALSE, lockStatus |-> "undefined", remoteStartStatus |-> 0]

\* ----------------------------------------------------------- constructor
\* FordPassPlatform constructor: subscribes the launch hook only when
\* username, password and vehicles are all present (index.ts:43-48).
\* config.username, config.password and config.hasVehicles say whether the
\* field is present (truthy) in config.json; config.vehicles is the list.
constructor(cfg) ==
    ~(~cfg.username \/ ~cfg.password \/ ~cfg.hasVehicles)

ValidConfigs(V) ==
    {[username |-> TRUE, password |-> TRUE, hasVehicles |-> TRUE,
      vehicles |-> d] : d \in SeqsUpTo(V, MaxDesired)}

InvalidConfigs ==
    { [username |-> FALSE, password |-> TRUE, hasVehicles |-> TRUE,
       vehicles |-> <<"B">>],
      [username |-> TRUE, password |-> FALSE, hasVehicles |-> TRUE,
       vehicles |-> <<"B">>],
      [username |-> TRUE, password |-> TRUE, hasVehicles |-> FALSE,
       vehicles |-> <<>>] }

\* ------------------------------------------------------ configureAccessory
\* The registry part of the state, passed through the synchronous code.
Registry ==
    [accObj |-> accObj, vehObj |-> vehObj, accessories |-> accessories,
     vehicles |-> vehicles, registerCalls |-> registerCalls,
     unregisterCalls |-> unregisterCalls, cfg |-> config.vehicles]

\* configureAccessory(accessory): a new Vehicle for accessory.context.vin, the
\* default characteristic values (lock current/target 1, switch off), the
\* handlers bound to that vehicle, and one push onto each array.  accessory
\* carries its UUID, its context.vin and whether the host restored it from its
\* cache or addVehicles built it.
configureAccessory(r, accessory) ==
    LET id == Len(r.accObj) + 1 IN
    [r EXCEPT
        !.accObj = Append(@, [UUID |-> accessory.UUID, vin |-> accessory.vin,
                              cached |-> accessory.cached,
                              LockCurrentState |-> 1, LockTargetState |-> 1,
                              On |-> FALSE]),
        !.vehObj = Append(@, [vin |-> accessory.vin, info |-> undefined]),
        !.vehicles = Append(@, id),
        !.accessories = Append(@, id)]

\* ------------------------------------------------------------ addVehicles
\* A variant that never finds the cached accessory (the lookup dropped).
findByUUID_never(r, uuid) == FALSE

\* this.accessories.find(x => x.UUID === uuid) is truthy (index.ts:171).
findByUUID(r, uuid) ==
    \E k \in 1..Len(r.accessories) : r.accObj[r.accessories[k]].UUID = uuid

\* The body of vehicles.forEach (index.ts:156-176) for entry k: the VIN is
\* upper-cased in place in the config, and an accessory is configured and
\* registered only when none with the derived uuid is in this.accessories.
addOne(r, k) ==
    LET vin == toUpperCase(r.cfg[k])
        uuid == generate(vin)
        r1 == [r EXCEPT !.cfg[k] = vin]
    IN  IF ~findByUUID(r1, uuid)
        THEN LET r2 == configureAccessory(r1,
                           [UUID |-> uuid, vin |-> vin, cached |-> FALSE]) IN
             [r2 EXCEPT !.registerCalls = Append(@, Len(r2.accObj))]
        ELSE r1

RECURSIVE addLoop(_, _)
addLoop(r, k) == IF k > Len(r.cfg) THEN r ELSE addLoop(addOne(r, k), k + 1)

\* vehicles.find(x => x.vin === accessory.context.vin) is truthy (index.ts:180).
findByVin(r, vin) == \E k \in 1..Len(r.cfg) : r.cfg[k] = vin

\* The body of this.accessories.forEach (index.ts:179-188) for the element at
\* index k: unregister, splice this.accessories, slice this.vehicles.
removeOne(r, k) ==
    LET id == r.accessories[k] IN
    IF ~findByVin(r, r.accObj[id].vin)
    THEN LET index == indexOf(r.accessories, id)
             r1 == [r EXCEPT !.unregisterCalls = Append(@, id)]
         IN  IF index > 0
             THEN [r1 EXCEPT !.accessories = splice(@, index),
                             !.vehicles = slice(@, index)]
             ELSE r1
    ELSE r

\* Array.prototype.forEach: the length is read once, the index advances by one
\* per step and an index that is no longer in the array is skipped.
RECURSIVE removeLoop(_, _, _)
removeLoop(r, k, len) ==
    IF k > len THEN r
    ELSE IF k > Len(r.accessories) THEN removeLoop(r, k + 1, len)
    ELSE removeLoop(removeOne(r, k), k + 1, len)

\* addVehicles: no await inside either loop, so the whole pass is one step.
addVehicles(r) ==
    LET added == addLoop(r, 1) IN removeLoop(added, 1, Len(added.accessories))

\* The registry variables become those of registry record r.
SetRegistry(r) ==
    /\ accObj' = r.accObj
    /\ vehObj' = r.vehObj
    /\ accessories' = r.accessories
    /\ vehicles' = r.vehicles
    /\ registerCalls' = r.registerCalls
    /\ unregisterCalls' = r.unregisterCalls
    /\ config' = [config EXCEPT !.vehicles = r.cfg]

\* ---------------------------------------------------------------- actions
InitRegistry(V) ==
    /\ config \in ValidConfigs(V) \cup InvalidConfigs
    /\ configJson = config.vehicles
    /\ subscribed = constructor(config)
    /\ accObj = <<>>
    /\ vehObj = <<>>
    /\ accessories = <<>>
    /\ vehicles = <<>>
    /\ registerCalls = <<>>
    /\ unregisterCalls = <<>>
    /\ passes = 0

InitRun ==
    /\ pc = "init"
    /\ timers = [reauth |-> FALSE, poll |-> FALSE]
    /\ nUpdates = 0
    /\ nReauth = 0
    /\ tasks = {}
    /\ reqs = <<>>

\* The state after construction, for a run of the whole platform.
Init == InitRegistry(RunVins) /\ InitRun

\* The state after construction, for the reconciliation passes on their own.
InitReconcile == InitRegistry(Vins) /\ InitRun

\* The host hands back one cached accessory (configureAccessory called by the
\* host at startup, before it signals the end of launching).  A cached
\* accessory was registered by an earlier run of addVehicles, so its
\* context.vin is upper case and its UUID is the digest of that VIN; the
\* host's cache holds one accessory per UUID.
ConfigureCached(v) ==
    /\ pc = "init"
    /\ passes = 0
    /\ Len(accObj) < MaxCached
    /\ ~\E i \in 1..Len(accObj) : accObj[i].UUID = generate(v)
    /\ SetRegistry(configureAccessory(Registry,
                       [UUID |-> generate(v), vin |-> v, cached |-> TRUE]))
    /\ UNCHANGED <<subscribed, passes, configJson, runVars>>

\* One addVehicles pass, run on its own (the reconciliation specification).
ReconcilePass ==
    /\ subscribed
    /\ passes < MaxPasses
    /\ SetRegistry(addVehicles(Registry))
    /\ passes' = passes + 1
    /\ UNCHANGED <<subscribed, configJson, runVars>>

NextReconcile ==
    \/ \E v \in UpperVins : ConfigureCached(v)
    \/ ReconcilePass

SpecReconcile == InitReconcile /\ [][NextReconcile]_vars

\* ========================================================== collaborators
\* What vehicle.status() resolves to: a whole snapshot, or undefined when the
\* fetch fails.  lockStatus and remoteStartStatus stand for the .value fields.

\* A remoteStartStatus.value that is missing from the snapshot: the
\* `|| 0` of index.ts:120 and 201 reads it as 0.
NoLevel == -1

\* A snapshot whose lock state is neither LOCKED nor UNLOCKED and whose
\* remote-start level is missing.
OddSnapshot ==
    [ok |-> TRUE, lockStatus |-> "UNKNOWN", remoteStartStatus |-> NoLevel]

\* The snapshots a fetch can bring: locked with the engine off, unlocked with
\* a remote start running, and the odd one.
Snapshots ==
    {[ok |-> TRUE, lockStatus |-> "LOCKED", remoteStartStatus |-> 0],
     [ok |-> TRUE, lockStatus |-> "UNLOCKED", remoteStartStatus |-> 3],
     OddSnapshot}
StatusResults == Snapshots \cup {undefined}

\* What vehicle.issueCommand() resolves to.
CommandOutcomes == {"success", "failure"}

\* The host's characteristic store: updateCharacteristic sets the value and
\* runs no handler.
updateCharacteristic_dropped(objs, id, name, value) == objs

updateCharacteristic(objs, id, name, value) == [objs EXCEPT ![id][name] = value]

\* The host keeps the value of a write, or the value a read returned, once the
\* handler's callback reports no error.
hostStores(objs, id, name, value) == [objs EXCEPT ![id][name] = value]

\* ============================================================ projections
\* lockNumber as computed at index.ts:88-94 and 195-199: 1 for LOCKED, else 0
\* (a missing status reads as undefined and gives 0).
lockNumber_notUnlocked(status) ==
    IF status.ok /\ status.lockStatus # "UNLOCKED" THEN 1 ELSE 0

lockNumber(status) == IF status.ok /\ status.lockStatus = "LOCKED" THEN 1 ELSE 0

\* info?.remoteStartStatus.value || 0  (index.ts:120, 201)
engineStatus(info) ==
    IF info.ok /\ info.remoteStartStatus # NoLevel
    THEN info.remoteStartStatus
    ELSE 0

\* started as computed at index.ts:118-124 and 202-205.
started(info) == engineStatus(info) > 0

\* this.accessories.find(x => x.UUID === uuid): the first match, 0 for none.
findAccessory_none(uuid) == 0

findAccessory(uuid) ==
    LET ks == {k \in 1..Len(accessories) : accObj[accessories[k]].UUID = uuid}
    IN  IF ks = {} THEN 0
        ELSE accessories[CHOOSE k \in ks : \A j \in ks : k <= j]

\* ============================================================== bootstrap
\* configureAccessory called by the host for a cached accessory, in a run of
\* the whole platform.
RestoreCached(v) ==
    /\ Len(accObj) + Len(config.vehicles) < MaxHandles
    /\ ConfigureCached(v)

\* Between an await on an already settled promise and its continuation only
\* microtasks run: no timer fires, no fetch completes, no request arrives.
InMicrotasks == pc \in {"added", "updated"}

\* The per-vehicle callbacks of one updateVehicles pass, each suspended at
\* await vehicle.status() (index.ts:192-193).
launched == {[veh |-> vehicles[k], pass |-> nUpdates + 1] : k \in 1..Len(vehicles)}

\* updateVehicles up to the point where it returns: every callback started.
updateVehicles ==
    /\ tasks' = tasks \cup launched
    /\ nUpdates' = nUpdates + 1

\* The host signals the end of launching; only a subscribed platform runs
\* didFinishLaunching, which suspends at await ford.auth().
Launch ==
    /\ pc = "init"
    /\ pc' = IF subscribed THEN "auth" ELSE "unsubscribed"
    /\ UNCHANGED <<regVars, timers, nUpdates, nReauth, tasks, reqs>>

\* The timers once ford.auth() has resolved: the 118 min interval is set
\* only inside `if (connected)` (index.ts:137-142); the 60 s interval is not
\* set in this turn.
timersAfterAuth_both(connected) ==
    IF connected THEN [reauth |-> TRUE, poll |-> TRUE] ELSE timers

timersAfterAuth_unconditional(connected) == [timers EXCEPT !.reauth = TRUE]

timersAfterAuth(connected) ==
    IF connected THEN [timers EXCEPT !.reauth = TRUE] ELSE timers

\* ford.auth() resolves.  When connected, the session-refresh timer is set
\* and addVehicles runs in the same turn (index.ts:137-144).
AuthResume(connected) ==
    /\ pc = "auth"
    /\ timers' = timersAfterAuth(connected)
    /\ IF connected
       THEN /\ SetRegistry(addVehicles(Registry))
            /\ passes' = passes + 1
            /\ pc' = "added"
       ELSE /\ pc' = "done"
            /\ UNCHANGED <<config, accObj, vehObj, accessories,
                           vehicles, registerCalls, unregisterCalls, passes>>
    /\ UNCHANGED <<subscribed, configJson, nUpdates, nReauth, tasks, reqs>>

\* The continuation after await this.addVehicles(): updateVehicles is called
\* (index.ts:145).
BootUpdate ==
    /\ pc = "added"
    /\ updateVehicles
    /\ pc' = "updated"
    /\ UNCHANGED <<regVars, timers, nReauth, reqs>>

\* The continuation after await this.updateVehicles(): the poll timer is set
\* (index.ts:148-150).
BootTimers ==
    /\ pc = "updated"
    /\ timers' = [timers EXCEPT !.poll = TRUE]
    /\ pc' = "running"
    /\ UNCHANGED <<regVars, nUpdates, nReauth, tasks, reqs>>

\* A tick of the 60 s timer: one more updateVehicles pass, whatever is still
\* in flight from earlier ones.
PollTick ==
    /\ timers.poll
    /\ ~InMicrotasks
    /\ nUpdates < MaxUpdates
    /\ updateVehicles
    /\ UNCHANGED <<regVars, pc, timers, nReauth, reqs>>

\* A tick of the 118 min timer: ford.auth() is awaited and its result dropped.
ReauthTick ==
    /\ timers.reauth
    /\ ~InMicrotasks
    /\ nReauth < MaxReauth
    /\ nReauth' = nReauth + 1
    /\ UNCHANGED <<regVars, pc, timers, nUpdates, tasks, reqs>>

\* ====================================================== status-update pass
\* vehicle.status() of task t resolves to status; the rest of the callback
\* (index.ts:193-214) runs: info is assigned, the projections are computed
\* and pushed to the accessory found by the VIN-derived uuid.
PollResume_projectsCached(t, status) ==
    /\ t \in tasks
    /\ ~InMicrotasks
    /\ LET info == vehObj[t.veh].info
           n == lockNumber(info)
           on == started(info)
           accessory == findAccessory(generate(vehObj[t.veh].vin))
       IN  /\ vehObj' = [vehObj EXCEPT ![t.veh].info = status]
           /\ accObj' =
                IF accessory = 0 THEN accObj
                ELSE updateCharacteristic(
                        updateCharacteristic(
                          updateCharacteristic(accObj, accessory,
                              "LockCurrentState", n),
                          accessory, "LockTargetState", n),
                        accessory, "On", on)
    /\ tasks' = tasks \ {t}
    /\ UNCHANGED <<config, subscribed, accessories, vehicles, registerCalls,
                   unregisterCalls, passes, configJson, pc, timers, nUpdates,
                   nReauth, reqs>>

PollResume_currentOnly(t, status) ==
    /\ t \in tasks
    /\ ~InMicrotasks
    /\ LET info == status
           n == lockNumber(info)
           on == started(info)
           accessory == findAccessory(generate(vehObj[t.veh].vin))
       IN  /\ vehObj' = [vehObj EXCEPT ![t.veh].info = info]
           /\ accObj' =
                IF accessory = 0 THEN accObj
                ELSE updateCharacteristic(
                        updateCharacteristic(accObj, accessory,
                            "LockCurrentState", n),
                        accessory, "On", on)
    /\ tasks' = tasks \ {t}
    /\ UNCHANGED <<config, subscribed, accessories, vehicles, registerCalls,
                   unregisterCalls, passes, configJson, pc, timers, nUpdates,
                   nReauth, reqs>>

PollResume(t, status) ==
    /\ t \in tasks
    /\ ~InMicrotasks
    /\ LET info == status
           n == lockNumber(info)
           on == started(info)
           accessory == findAccessory(generate(vehObj[t.veh].vin))
       IN  /\ vehObj' = [vehObj EXCEPT ![t.veh].info = info]
           /\ accObj' =
                IF accessory = 0 THEN accObj
                ELSE updateCharacteristic(
                        updateCharacteristic(
                          updateCharacteristic(accObj, accessory,
                              "LockCurrentState", n),
                          accessory, "LockTargetState", n),
                        accessory, "On", on)
    /\ tasks' = tasks \ {t}
    /\ UNCHANGED <<config, subscribed, accessories, vehicles, registerCalls,
                   unregisterCalls, passes, configJson, pc, timers, nUpdates,
                   nReauth, reqs>>

\* ================================================= characteristic handlers
\* A request record: the handler's arguments, the command it issued, whether
\* it is still suspended (st), what the collaborator resolved to (outcome),
\* and what the host's callback received (ncb calls, err, ret).
Request(kind, a, value, command) ==
    [kind |-> kind, acc |-> a, value |-> value, command |-> command,
     issued |-> IF command = "status" THEN 0 ELSE 1,
     st |-> "awaiting", outcome |-> "pending", ncb |-> 0, err |-> FALSE,
     ret |-> "none"]

\* The host delivers requests only for accessories it has published, after
\* launch, and never in the middle of a microtask chain.
Deliverable(a) ==
    /\ pc # "init"
    /\ ~InMicrotasks
    /\ Len(reqs) < MaxReqs
    /\ a \in Range(accessories)

frame == <<regVars, pc, timers, nUpdates, nReauth, tasks>>
frameButObjects ==
    <<config, subscribed, vehObj, accessories, vehicles, registerCalls,
      unregisterCalls, passes, configJson, pc, timers, nUpdates, nReauth, tasks>>

\* callback() / callback(null, value): one call, no error.
callbackOk(i, outcome, ret) ==
    [reqs EXCEPT ![i].st = "done", ![i].outcome = outcome,
                 ![i].ncb = @ + 1, ![i].err = FALSE, ![i].ret = ret]

\* callback(new Error(), undefined): one call, an error and no value.
callbackError_noError(i, outcome) ==
    [reqs EXCEPT ![i].st = "done", ![i].outcome = outcome,
                 ![i].ncb = @ + 1, ![i].err = FALSE]

callbackError_fallsThrough(i, outcome) ==
    [reqs EXCEPT ![i].st = "done", ![i].outcome = outcome,
                 ![i].ncb = @ + 2, ![i].err = TRUE]

callbackError(i, outcome) ==
    [reqs EXCEPT ![i].st = "done", ![i].outcome = outcome,
                 ![i].ncb = @ + 1, ![i].err = TRUE]

\* LockTargetState SET, up to await vehicle.issueCommand (index.ts:71-77).
LockSet(a, value) ==
    /\ Deliverable(a)
    /\ reqs' = Append(reqs, Request("lockSet", a, value,
                                    IF value = 0 THEN "UNLOCK" ELSE "LOCK"))
    /\ UNCHANGED frame

\* issueCommand resolves; index.ts:78-79 run: LockCurrentState takes the
\* written value and the write is acknowledged.
LockSetResume(i, outcome) ==
    /\ i \in 1..Len(reqs)
    /\ reqs[i].kind = "lockSet" /\ reqs[i].st = "awaiting"
    /\ ~InMicrotasks
    /\ accObj' = hostStores(
                    updateCharacteristic(accObj, reqs[i].acc,
                        "LockCurrentState", reqs[i].value),
                    reqs[i].acc, "LockTargetState", reqs[i].value)
    /\ reqs' = callbackOk(i, outcome, "none")
    /\ UNCHANGED frameButObjects

\* LockTargetState GET, up to await vehicle.status() (index.ts:81-82).
LockGet(a) ==
    /\ Deliverable(a)
    /\ reqs' = Append(reqs, Request("lockGet", a, "none", "status"))
    /\ UNCHANGED frame

\* status() resolves; index.ts:83-96 run.
LockGetResume(i, status) ==
    /\ i \in 1..Len(reqs)
    /\ reqs[i].kind = "lockGet" /\ reqs[i].st = "awaiting"
    /\ ~InMicrotasks
    /\ IF ~status.ok
       THEN /\ reqs' = callbackError(i, status)
            /\ accObj' = accObj
       ELSE LET n == lockNumber(status) IN
            /\ accObj' = hostStores(
                            updateCharacteristic(accObj, reqs[i].acc,
                                "LockCurrentState", n),
                            reqs[i].acc, "LockTargetState", n)
            /\ reqs' = callbackOk(i, status, n)
    /\ UNCHANGED frameButObjects

\* On SET, up to await vehicle.issueCommand (index.ts:102-108).
SwitchSet(a, value) ==
    /\ Deliverable(a)
    /\ reqs' = Append(reqs, Request("switchSet", a, value,
                                    IF value THEN "START" ELSE "STOP"))
    /\ UNCHANGED frame

\* issueCommand resolves; index.ts:109 runs.
SwitchSetResume(i, outcome) ==
    /\ i \in 1..Len(reqs)
    /\ reqs[i].kind = "switchSet" /\ reqs[i].st = "awaiting"
    /\ ~InMicrotasks
    /\ accObj' = hostStores(accObj, reqs[i].acc, "On", reqs[i].value)
    /\ reqs' = callbackOk(i, outcome, "none")
    /\ UNCHANGED frameButObjects

\* On GET, up to await vehicle.status() (index.ts:111-112).
SwitchGet(a) ==
    /\ Deliverable(a)
    /\ reqs' = Append(reqs, Request("switchGet", a, "none", "status"))
    /\ UNCHANGED frame

\* status() resolves; index.ts:113-125 run: the value returned is computed
\* from vehicle.info, the handle's cached snapshot.
SwitchGetResume(i, status) ==
    /\ i \in 1..Len(reqs)
    /\ reqs[i].kind = "switchGet" /\ reqs[i].st = "awaiting"
    /\ ~InMicrotasks
    /\ IF ~status.ok
       THEN /\ reqs' = callbackError(i, status)
            /\ accObj' = accObj
       ELSE LET on == started(vehObj[reqs[i].acc].info) IN
            /\ accObj' = hostStores(accObj, reqs[i].acc, "On", on)
            /\ reqs' = callbackOk(i, status, on)
    /\ UNCHANGED frameButObjects

\* ============================================================ the platform
\* The vehicle cloud API answers only within an authenticated session: until
\* ford.auth() has succeeded every fetch and every command fails.
Connected == pc \in {"added", "updated", "running"}
StatusNow == IF Connected THEN StatusResults ELSE {undefined}
OutcomesNow == IF Connected THEN CommandOutcomes ELSE {"failure"}

Next ==
    \/ \E v \in UpperVins : RestoreCached(v)
    \/ Launch
    \/ \E connected \in BOOLEAN : AuthResume(connected)
    \/ BootUpdate
    \/ BootTimers
    \/ PollTick
    \/ ReauthTick
    \/ \E t \in tasks, status \in StatusNow : PollResume(t, status)
    \/ \E a \in 1..Len(accObj), value \in {0, 1} : LockSet(a, value)
    \/ \E a \in 1..Len(accObj), value \in BOOLEAN : SwitchSet(a, value)
    \/ \E a \in 1..Len(accObj) : LockGet(a)
    \/ \E a \in 1..Len(accObj) : SwitchGet(a)
    \/ \E i \in 1..Len(reqs), o \in OutcomesNow : LockSetResume(i, o)
    \/ \E i \in 1..Len(reqs), o \in OutcomesNow : SwitchSetResume(i, o)
    \/ \E i \in 1..Len(reqs), status \in StatusNow : LockGetResume(i, status)
    \/ \E i \in 1..Len(reqs), status \in StatusNow : SwitchGetResume(i, status)

Spec == Init /\ [][Next]_vars

\* ===================================================== registry claims

\* The VIN is in the desired list, letter case aside.
InDesired(vin) ==
    \E k \in 1..Len(config.vehicles) : SameIgnoringCase(config.vehicles[k], vin)

\* The stored (upper-case) form of a VIN, stated without toUpperCase.
CanonicalVin(v) == CHOOSE u \in UpperVins : SameIgnoringCase(u, v)

\* C1: the registered-accessory collection and the vehicle-handle collection
\* have the same length and hold the same VIN at every index, so a removed
\* accessory's handle is removed with it.
C1_ParallelCollections ==
    /\ Len(vehicles) = Len(accessories)
    /\ \A i \in 1..Len(accessories) :
          i <= Len(vehicles) /\ vehObj[vehicles[i]].vin = accObj[accessories[i]].vin

\* C2: after a single addVehicles pass every accessory whose VIN is not in the
\* desired list has been unregistered and is out of this.accessories, and no
\* accessory whose VIN is desired has been unregistered.
C2_StaleAccessoriesRemoved ==
    passes = 1 =>
        \A id \in 1..Len(accObj) :
            IF InDesired(accObj[id].vin)
            THEN id \notin Range(unregisterCalls)
            ELSE id \in Range(unregisterCalls) /\ id \notin Range(accessories)

\* C3: a second addVehicles pass with the same desired list registers nothing,
\* unregisters nothing and leaves this.accessories as the first pass left it.
C3_ReconcileIdempotent ==
    [][(passes >= 1 /\ passes' = passes + 1) =>
          /\ registerCalls' = registerCalls
          /\ unregisterCalls' = unregisterCalls
          /\ accessories' = accessories]_vars

\* C4: once addVehicles has run, the accessories it registered are exactly one
\* per desired uuid that no cached accessory held; a cached accessory that is
\* still configured was not registered again and has a single vehicle
\* handle; and every desired VIN has an accessory in this.accessories.
C4_RegistersExactlyTheNew ==
    passes >= 1 =>
        LET desiredUUIDs ==
                {generate(CanonicalVin(config.vehicles[k])) :
                    k \in 1..Len(config.vehicles)}
            cachedIds == {id \in 1..Len(accObj) : accObj[id].cached}
            cachedUUIDs == {accObj[id].UUID : id \in cachedIds}
            newUUIDs == {accObj[id].UUID : id \in Range(registerCalls)}
        IN  /\ newUUIDs = desiredUUIDs \ cachedUUIDs
            /\ Cardinality(newUUIDs) = Len(registerCalls)
            /\ \A id \in cachedIds :
                  InDesired(accObj[id].vin) =>
                      /\ id \notin Range(registerCalls)
                      /\ Cardinality({h \in Range(vehicles) :
                              SameIgnoringCase(vehObj[h].vin, accObj[id].vin)}) = 1
            /\ \A k \in 1..Len(config.vehicles) :
                  \E id \in Range(accessories) :
                      /\ accObj[id].vin = CanonicalVin(config.vehicles[k])
                      /\ accObj[id].UUID = generate(CanonicalVin(config.vehicles[k]))

\* C4 witness: a pass has run with a cached accessory that is still configured
\* (typed in lower case) next to a desired vehicle that had to be registered.
C4_Witness ==
    /\ passes = 1
    /\ configJson = <<"a", "B">>
    /\ Len(accObj) = 2
    /\ accObj[1].cached /\ accObj[1].vin = "A"
    /\ registerCalls = <<2>>
    /\ accessories = <<1, 2>>

\* C5: this.accessories never holds two accessories with one uuid, nor two
\* whose VINs differ only in letter case, and no accessory is unregistered
\* while a configured VIN equals its VIN letter case aside.
C5_OnePerUuid ==
    /\ \A i, j \in 1..Len(accessories) :
          i # j =>
              /\ accObj[accessories[i]].UUID # accObj[accessories[j]].UUID
              /\ ~SameIgnoringCase(accObj[accessories[i]].vin,
                                    accObj[accessories[j]].vin)
    /\ \A id \in Range(unregisterCalls) : ~InDesired(accObj[id].vin)

\* C5 witness: the list typed as <<"a", "A">> next to the cached accessory "A"
\* went through a pass and left that one accessory, nothing registered or
\* unregistered.
C5_Witness ==
    /\ passes >= 1
    /\ configJson = <<"a", "A">>
    /\ Len(accObj) = 1 /\ accObj[1].cached
    /\ accessories = <<1>>
    /\ registerCalls = <<>> /\ unregisterCalls = <<>>

\* ====================================================== run-time claims
\* C6: a lock or switch write whose command failed is acknowledged with an
\* error, by one callback, after the command was issued once.
C6_FailedWriteIsError ==
    \A i \in 1..Len(reqs) :
        (/\ reqs[i].kind \in {"lockSet", "switchSet"}
         /\ reqs[i].st = "done"
         /\ reqs[i].outcome = "failure")
        => (reqs[i].err /\ reqs[i].ncb = 1 /\ reqs[i].issued = 1)

\* C7: the step that resumes a lock write after a failed LOCK or UNLOCK
\* command leaves the accessory's LockCurrentState as it was.
C7_FailedLockKeepsCurrentState ==
    [][\A i \in 1..Len(reqs) :
          LockSetResume(i, "failure") =>
              accObj'[reqs[i].acc].LockCurrentState
                  = accObj[reqs[i].acc].LockCurrentState]_vars

\* C8: the step that resumes a status-update task after a failed fetch leaves
\* the vehicle's cached snapshot (vehicle.info) as it was.
C8_FailedFetchKeepsInfo ==
    [][\A t \in tasks :
          PollResume(t, undefined) =>
              vehObj'[t.veh].info = vehObj[t.veh].info]_vars

\* C9: the step that resumes a status-update task after a failed fetch pushes
\* no projection: LockCurrentState, LockTargetState and On of every accessory
\* stay as they were.
C9_FailedFetchPushesNothing ==
    [][\A t \in tasks :
          PollResume(t, undefined) =>
              \A a \in 1..Len(accObj) :
                  /\ accObj'[a].LockCurrentState = accObj[a].LockCurrentState
                  /\ accObj'[a].LockTargetState = accObj[a].LockTargetState
                  /\ accObj'[a].On = accObj[a].On]_vars

\* C10: a switch read whose fetch succeeded returns true exactly when the
\* remote-start level of the snapshot it fetched is greater than 0.
C10_SwitchReadIsLive ==
    \A i \in 1..Len(reqs) :
        (/\ reqs[i].kind = "switchGet"
         /\ reqs[i].st = "done"
         /\ reqs[i].outcome.ok)
        => (reqs[i].ret = (reqs[i].outcome.remoteStartStatus > 0))

\* C11: the step that resumes a lock read or a switch read after a failed
\* fetch calls the host callback once with an error and no value, and leaves
\* every characteristic of every accessory as it was.
C11_FailedReadIsError ==
    [][\A i \in 1..Len(reqs) :
          (LockGetResume(i, undefined) \/ SwitchGetResume(i, undefined)) =>
              /\ reqs'[i].ncb = 1
              /\ reqs'[i].err
              /\ reqs'[i].ret = "none"
              /\ accObj' = accObj]_vars

\* C11 witness: a lock read whose fetch failed in an authenticated session
\* has been answered, on an accessory a poll pass had set to unlocked.
C11_Witness ==
    /\ Connected
    /\ \E i \in 1..Len(reqs) :
          /\ reqs[i].kind = "lockGet"
          /\ reqs[i].st = "done"
          /\ ~reqs[i].outcome.ok
          /\ reqs[i].err
          /\ accObj[reqs[i].acc].LockCurrentState = 0

\* C12: a periodic timer is set only once the first reconciliation pass and
\* the first status-update pass have run.
C12_TimersAfterFirstPasses ==
    (timers.reauth \/ timers.poll) => (passes >= 1 /\ nUpdates >= 1)

\* C12, amended: the session-refresh timer is set as soon as the session is
\* established; the reconciliation pass follows it, the first status-update
\* pass follows the reconciliation pass, and the status-poll timer is set only
\* after both passes.
C12_BootstrapOrder ==
    /\ timers.reauth <=> Connected
    /\ passes >= 1 => timers.reauth
    /\ nUpdates >= 1 => passes >= 1
    /\ timers.poll => (timers.reauth /\ passes >= 1 /\ nUpdates >= 1)

\* C12 witness: bootstrap has gone through; both timers are set while a task
\* of the first status-update pass is still waiting for its fetch.
C12_Witness ==
    /\ pc = "running"
    /\ timers.reauth /\ timers.poll
    /\ passes = 1 /\ nUpdates = 1
    /\ tasks # {}

\* C13: with a configuration that lacks username, password or vehicles the
\* launch hook is not subscribed, no reconciliation pass, status-update pass or
\* timer ever runs, and no vehicle handle exists and nothing is in
\* this.accessories or this.vehicles, whatever cached accessories the host
\* hands to configureAccessory.
C13_InvalidConfigDoesNothing ==
    ~(config.username /\ config.password /\ config.hasVehicles) =>
        /\ ~subscribed
        /\ passes = 0 /\ nUpdates = 0 /\ nReauth = 0
        /\ ~timers.reauth /\ ~timers.poll
        /\ vehObj = <<>>
        /\ accessories = <<>> /\ vehicles = <<>>

\* C14: once the first ford.auth() has failed, no reconciliation pass and no
\* status-update pass has run or will run, neither timer is set, and nothing
\* was registered, unregistered, fetched by a pass or re-authenticated.
C14_FailedAuthStartsNothing ==
    pc = "done" =>
        /\ passes = 0 /\ nUpdates = 0 /\ nReauth = 0
        /\ ~timers.reauth /\ ~timers.poll
        /\ tasks = {}
        /\ registerCalls = <<>> /\ unregisterCalls = <<>>
        /\ \A a \in 1..Len(accObj) : accObj[a].cached

\* C14 witness: the first ford.auth() failed on a valid configuration whose
\* vehicle is cached, and the host has since had a request answered.
C14_Witness ==
    /\ pc = "done"
    /\ subscribed
    /\ Len(config.vehicles) = 1
    /\ Len(accObj) = 1 /\ accObj[1].vin = config.vehicles[1]
    /\ \E i \in 1..Len(reqs) : reqs[i].st = "done"

\* ================================================== projection claims
\* The projection as the specification words it: 1 for LOCKED and 0 for any
\* other lock state; started when a remote-start level is there and above 0.
LockedNumber(s) == IF s.ok /\ s.lockStatus = "LOCKED" THEN 1 ELSE 0
RemoteStarted(s) ==
    s.ok /\ s.remoteStartStatus # NoLevel /\ s.remoteStartStatus > 0

\* Accessory a shows the projection of s on all three characteristics.
Projected(a, s) ==
    /\ accObj[a].LockCurrentState = LockedNumber(s)
    /\ accObj[a].LockTargetState = LockedNumber(s)
    /\ accObj[a].On = RemoteStarted(s)

\* The accessories in this.accessories that stand for vehicle handle h.
AccessoriesOf(h) == {a \in Range(accessories) : accObj[a].vin = vehObj[h].vin}

\* C15: in a status-update pass the task of one vehicle ends without touching
\* the tasks, snapshots and accessories of the other vehicles, whether its
\* fetch failed or not; and a task whose fetch succeeded stores the snapshot
\* in its handle and pushes its projection to its accessory, in whatever order
\* the fetches complete.
C15_TasksAreIndependent ==
    [][\A t \in tasks, s \in StatusResults :
          PollResume(t, s) =>
              /\ tasks' = tasks \ {t}
              /\ \A h \in 1..Len(vehObj) :
                    h # t.veh => vehObj'[h] = vehObj[h]
              /\ \A a \in 1..Len(accObj) :
                    a \notin AccessoriesOf(t.veh) => accObj'[a] = accObj[a]
              /\ s.ok =>
                    /\ vehObj'[t.veh].info = s
                    /\ \A a \in AccessoriesOf(t.veh) : Projected(a, s)']_vars

\* C15 witness: the first pass over two vehicles is over; the fetch of the
\* first vehicle failed, the fetch of the second one succeeded and its
\* accessory shows the projection of that snapshot.
C15_Witness ==
    /\ nUpdates = 1 /\ tasks = {}
    /\ vehicles = <<1, 2>> /\ accessories = <<1, 2>>
    /\ ~vehObj[1].info.ok
    /\ vehObj[2].info.ok /\ vehObj[2].info.lockStatus = "UNLOCKED"
    /\ vehObj[2].info.remoteStartStatus = 3
    /\ Projected(2, vehObj[2].info)

\* ===================================================== lock-state claims
\* C16: the step that acknowledges a lock write whose command succeeded
\* leaves LockCurrentState at the written value, one callback made and no
\* error reported, whatever status-update tasks are in flight or have ended
\* while the command was awaited.
C16_AckedWriteShowsValue ==
    [][\A i \in 1..Len(reqs) :
          LockSetResume(i, "success") =>
              /\ accObj'[reqs[i].acc].LockCurrentState = reqs[i].value
              /\ reqs'[i].st = "done"
              /\ reqs'[i].ncb = 1
              /\ ~reqs'[i].err]_vars

\* C16 witness: an unlock write has been acknowledged after a successful
\* command and the accessory shows 0, while a task of a later status-update
\* pass for the same vehicle is still waiting for its fetch and an earlier
\* fetch had stored a LOCKED snapshot.
C16_Witness ==
    \E i \in 1..Len(reqs) :
        /\ reqs[i].kind = "lockSet" /\ reqs[i].value = 0
        /\ reqs[i].st = "done" /\ reqs[i].outcome = "success"
        /\ accObj[reqs[i].acc].LockCurrentState = 0
        /\ vehObj[reqs[i].acc].info.ok
        /\ vehObj[reqs[i].acc].info.lockStatus = "LOCKED"
        /\ \E t \in tasks : t.veh = reqs[i].acc /\ t.pass = 2

\* C17: whenever a fetch brings a snapshot, the status-update task pushes to
\* its accessory LockCurrentState 1 if the lock state is LOCKED and 0 for any
\* other lock state, and On true exactly if a remote-start level is there and
\* above 0; a lock read pushes and returns the same lock number.
C17_ProjectionValues ==
    [][/\ \A t \in tasks, s \in Snapshots :
             PollResume(t, s) =>
                 \A a \in AccessoriesOf(t.veh) :
                     /\ accObj'[a].LockCurrentState = 1
                            <=> s.lockStatus = "LOCKED"
                     /\ accObj'[a].LockCurrentState = 0
                            <=> s.lockStatus # "LOCKED"
                     /\ accObj'[a].On
                            <=> (s.remoteStartStatus # NoLevel
                                    /\ s.remoteStartStatus > 0)
       /\ \A i \in 1..Len(reqs), s \in Snapshots :
             LockGetResume(i, s) =>
                 /\ accObj'[reqs[i].acc].LockCurrentState = LockedNumber(s)
                 /\ ~reqs'[i].err
                 /\ reqs'[i].ret = LockedNumber(s)]_vars

\* C17 witness: a lock read has fetched a snapshot whose lock state is
\* neither LOCKED nor UNLOCKED and returned 0, on an accessory whose switch a
\* status-update task had turned on from a snapshot with remote-start level 3.
C17_Witness ==
    \E i \in 1..Len(reqs) :
        /\ reqs[i].kind = "lockGet" /\ reqs[i].st = "done"
        /\ reqs[i].outcome = OddSnapshot
        /\ reqs[i].ret = 0
        /\ accObj[reqs[i].acc].LockCurrentState = 0
        /\ vehObj[reqs[i].acc].info.ok
        /\ vehObj[reqs[i].acc].info.remoteStartStatus = 3
        /\ accObj[reqs[i].acc].On

\* ===================================================== overlapping passes
\* No status-update task of handle h is waiting for its fetch.
NoFetchInFlight(h) == \A t \in tasks : t.veh # h

\* No characteristic handler has written to accessory a.
NoHandlerWrote(a) ==
    \A i \in 1..Len(reqs) : reqs[i].acc = a => reqs[i].st = "awaiting"

\* C18: with status-update passes overlapping, the task that ends with a
\* snapshot stores that snapshot and pushes the projection of that same
\* snapshot, whatever other tasks of the vehicle are in flight; and once no
\* fetch of the vehicle is in flight, a stored snapshot and the accessory's
\* characteristics agree, both being those of the fetch that completed last.
C18_LastFetchWins ==
    /\ [](\A h \in Range(vehicles) :
             (NoFetchInFlight(h) /\ vehObj[h].info.ok) =>
                 \A a \in AccessoriesOf(h) :
                     NoHandlerWrote(a) => Projected(a, vehObj[h].info))
    /\ [][\A t \in tasks, s \in Snapshots :
             PollResume(t, s) =>
                 /\ vehObj'[t.veh].info = s
                 /\ \A a \in AccessoriesOf(t.veh) : Projected(a, s)'
                 /\ NoFetchInFlight(t.veh)' =>
                       \A a \in AccessoriesOf(t.veh) :
                           Projected(a, vehObj[t.veh].info)']_vars

\* C18 witness: two passes overlap on the first vehicle and the fetch of the
\* second pass has completed first: its snapshot is stored and projected
\* while the task of the first pass is still waiting.
C18_Witness ==
    /\ nUpdates = 2
    /\ [veh |-> 1, pass |-> 1] \in tasks
    /\ [veh |-> 1, pass |-> 2] \notin tasks
    /\ 1 \in Range(vehicles)
    /\ vehObj[1].info.ok /\ vehObj[1].info.lockStatus = "UNLOCKED"
    /\ \E a \in AccessoriesOf(1) : Projected(a, vehObj[1].info)

\* ======================================================= callback claims
\* C19: a request whose collaborator call has returned has had the host
\* callback called exactly once, with an error or with a success; a request
\* still waiting for its collaborator has had it called not at all.
C19_OneCallbackPerRequest ==
    \A i \in 1..Len(reqs) :
        /\ reqs[i].st = "awaiting" =>
              (reqs[i].ncb = 0 /\ reqs[i].outcome = "pending")
        /\ reqs[i].st = "done" => reqs[i].ncb = 1
        /\ reqs[i].st \in {"awaiting", "done"}

\* C19 witness: a switch read has been answered with an error after a failed
\* fetch in an authenticated session, by one callback.
C19_Witness ==
    /\ Connected
    /\ \E i \in 1..Len(reqs) :
          /\ reqs[i].kind = "switchGet"
          /\ reqs[i].st = "done"
          /\ reqs[i].err
          /\ reqs[i].ncb = 1

\* No handler of accessory a is waiting for a command or a fetch.
NoRequestInFlight(a) ==
    \A i \in 1..Len(reqs) : reqs[i].acc = a => reqs[i].st = "done"

\* C20: whenever no lock write and no status fetch of an accessory's vehicle
\* is in flight (no handler waiting, no status-update task waiting), the
\* accessory's LockCurrentState equals its LockTargetState.
C20_CurrentEqualsTarget ==
    \A a \in 1..Len(accObj) :
        (NoRequestInFlight(a) /\ NoFetchInFlight(a)) =>
            accObj[a].LockCurrentState = accObj[a].LockTargetState

\* C20 witness: a poll pass had shown the accessory locked, then an unlock
\* write was acknowledged while a second pass had ended; nothing is in flight
\* and both characteristics are 0.
C20_Witness ==
    /\ nUpdates = 2 /\ tasks = {}
    /\ \E i \in 1..Len(reqs) :
          /\ reqs[i].kind = "lockSet" /\ reqs[i].value = 0
          /\ reqs[i].st = "done"
          /\ vehObj[reqs[i].acc].info.ok
          /\ vehObj[reqs[i].acc].info.lockStatus = "LOCKED"
          /\ accObj[reqs[i].acc].LockCurrentState = 0
          /\ accObj[reqs[i].acc].LockTargetState = 0

====
